---- MODULE Spec2Model ----
(***************************************************************************)
(* Tab/pane workspace of the editor-styled resume (src/src/App.tsx).       *)
(*                                                                         *)
(* An OpenTab {id, title} is modelled by its id: the title is a function   *)
(* of the id (SECTIONS.find(...).title, and 'Home' for the synthetic home  *)
(* tab).  Tab lists are sequences of section ids; JavaScript's 0-based     *)
(* indices are kept in dragIndex, dragOverIndex and the index arguments.   *)
(*                                                                         *)
(* Every handler runs to completion in one event-loop turn and React       *)
(* re-renders before the next event, so the values a handler closes over   *)
(* are the current state: one action per handler.  The one asynchronous    *)
(* function, load(), is one action per stretch between two awaits.         *)
(***************************************************************************)
EXTENDS Integers, Sequences, FiniteSets, TLC

VARIABLES
    leftOpenTabs,      \* App.tsx:65
    leftActiveTabId,   \* App.tsx:66
    rightOpenTabs,     \* App.tsx:67
    rightActiveTabId,  \* App.tsx:68  (NULL when none)
    contextMenu,       \* App.tsx:79  (NoMenu or [type, tabId, group])
    dragIndex,         \* App.tsx:80  (NoIndex or a 0-based index)
    dragOverIndex,     \* App.tsx:81  (NoIndex or a 0-based index)
    dragGesture,       \* the drag-and-drop gesture in progress: none, of a left tab, or foreign
    isResizing,        \* App.tsx:83
    splitRatio,        \* App.tsx:84  (a number, see Num)
    dragOffsetPx,      \* App.tsx:85  (NoOffset or a number)
    resizeSessions,    \* history: how many resize sessions were started
    resizeListeners,   \* App.tsx:150-152: onMove/onUp pairs registered on document
    query,             \* App.tsx:69  (a string, see Str)
    resume,            \* App.tsx:87  (NULL or the source of the record)
    resumeLoading,     \* App.tsx:88
    loadPc,            \* App.tsx:110-134: where load() stands
    loadLog,           \* history: the requests load() issued and their outcomes
    lastOp             \* history: the handler that ran last, with its arguments

tabVars == <<leftOpenTabs, leftActiveTabId, rightOpenTabs, rightActiveTabId>>
dragVars == <<dragIndex, dragOverIndex, dragGesture>>
resizeVars == <<isResizing, splitRatio, dragOffsetPx>>
paneVars == <<resizeVars, resizeSessions, resizeListeners>>
loadVars == <<resume, resumeLoading, loadPc, loadLog>>
\* What no tab, menu or drag handler writes.
otherVars == <<paneVars, query, loadVars>>
vars == <<leftOpenTabs, leftActiveTabId, rightOpenTabs, rightActiveTabId,
          contextMenu, dragIndex, dragOverIndex, dragGesture,
          isResizing, splitRatio, dragOffsetPx, resizeSessions, resizeListeners,
          query, resume, resumeLoading, loadPc, loadLog, lastOp>>

\* ---------------------------------------------------------------- bounds
\* How many sections of the catalog (taken in catalog order) the user touches.
NumSections == 3

\* How many times the user grabs the resizer.
MaxResizeSessions == 2

\* ---------------------------------------------------------------- values
NULL == "null"
UNDEFINED == "undefined"

\* The null of dragIndex and dragOverIndex (useState<number | null>(null)).
NoIndex == -1

\* The null of contextMenu, and a menu on a tab.  The screen position x, y only
\* places the menu and is left out.
NoMenu == [type |-> "none", tabId |-> NULL, group |-> NULL]
TabMenu(tabId, group) == [type |-> "tab", tabId |-> tabId, group |-> group]

SECTIONS == <<"home", "about", "experience", "projects",
              "skills", "education", "training", "contact">>

Min(a, b) == IF a < b THEN a ELSE b

SectionIds == {SECTIONS[i] : i \in 1..Min(NumSections, Len(SECTIONS))}

Groups == {"left", "right"}

HomeTabs == <<"home">>

\* ---------------------------------------------------------------- arrays
\* tabs[k] of JavaScript: undefined outside the array.
At(tabs, k) == IF k >= 0 /\ k < Len(tabs) THEN tabs[k + 1] ELSE UNDEFINED

\* prev.some((t) => t.id === tabId)
Some(tabs, tabId) == \E i \in DOMAIN tabs : tabs[i] = tabId

\* prev.findIndex((t) => t.id === tabId): 0-based, -1 when absent.
FindIndex(tabs, tabId) ==
    IF Some(tabs, tabId)
    THEN (CHOOSE i \in DOMAIN tabs :
              tabs[i] = tabId /\ \A j \in 1..(i - 1) : tabs[j] # tabId) - 1
    ELSE -1

\* prev.filter((t) => t.id !== tabId)
FilterOut(tabs, tabId) == SelectSeq(tabs, LAMBDA t : t # tabId)

\* Mutation of FilterOnly: the filter keeps every tab.
FilterOnlyKeepsAll(tabs, tabId) == tabs

\* prev.filter((t) => t.id === tabId)
FilterOnly(tabs, tabId) == SelectSeq(tabs, LAMBDA t : t = tabId)

\* prev.slice(0, end)
SliceTo(tabs, end) == SubSeq(tabs, 1, Min(end, Len(tabs)))

\* tabs.find((t) => t.id !== tabId)?.id ?? dflt
FindOther(tabs, tabId, dflt) ==
    LET rest == FilterOut(tabs, tabId)
    IN  IF Len(rest) > 0 THEN rest[1] ELSE dflt

\* const [moved] = next.splice(k, 1): the array without element k.
SpliceOut(tabs, k) ==
    IF k >= 0 /\ k < Len(tabs)
    THEN SubSeq(tabs, 1, k) \o SubSeq(tabs, k + 2, Len(tabs))
    ELSE tabs

\* next.splice(k, 0, x): x inserted before position k (k is clamped to the length).
SpliceIn(tabs, k, x) ==
    LET p == Min(IF k < 0 THEN 0 ELSE k, Len(tabs))
    IN  SubSeq(tabs, 1, p) \o <<x>> \o SubSeq(tabs, p + 1, Len(tabs))

TabsOf(group) == IF group = "left" THEN leftOpenTabs ELSE rightOpenTabs
ActiveOf(group) == IF group = "left" THEN leftActiveTabId ELSE rightActiveTabId

\* ---------------------------------------------------------------- strings
\* A string of the search box or of the catalog is the sequence of its
\* characters.
UpperChars == <<"A", "B", "C", "D", "E", "F", "G", "H", "I", "J", "K", "L", "M", "N", "O", "P", "Q", "R", "S", "T", "U", "V", "W", "X", "Y", "Z">>
LowerChars == <<"a", "b", "c", "d", "e", "f", "g", "h", "i", "j", "k", "l", "m", "n", "o", "p", "q", "r", "s", "t", "u", "v", "w", "x", "y", "z">>

LowerChar(c) ==
    IF \E i \in DOMAIN UpperChars : UpperChars[i] = c
    THEN LowerChars[CHOOSE i \in DOMAIN UpperChars : UpperChars[i] = c]
    ELSE c

\* s.toLowerCase()
toLowerCase(s) == [i \in 1..Len(s) |-> LowerChar(s[i])]

\* s.includes(q)
includes(s, q) == \E i \in 0..(Len(s) - Len(q)) : SubSeq(s, i + 1, i + Len(q)) = q

WhiteSpace == {" ", "\t", "\n"}

\* s.trim()
RECURSIVE trimStart(_)
trimStart(s) == IF s # <<>> /\ Head(s) \in WhiteSpace THEN trimStart(Tail(s)) ELSE s
RECURSIVE trimEnd(_)
trimEnd(s) ==
    IF s # <<>> /\ s[Len(s)] \in WhiteSpace THEN trimEnd(SubSeq(s, 1, Len(s) - 1)) ELSE s
trim(s) == trimEnd(trimStart(s))

\* title and filePath of the entries of SECTIONS (App.tsx:53-62).
SectionTitle ==
    [home |-> <<"H", "o", "m", "e">>,
     about |-> <<"A", "b", "o", "u", "t">>,
     experience |-> <<"E", "x", "p", "e", "r", "i", "e", "n", "c", "e">>,
     projects |-> <<"P", "r", "o", "j", "e", "c", "t", "s">>,
     skills |-> <<"S", "k", "i", "l", "l", "s">>,
     education |-> <<"E", "d", "u", "c", "a", "t", "i", "o", "n">>,
     training |-> <<"T", "r", "a", "i", "n", "i", "n", "g", " ", "&", " ", "C", "e", "r", "t", "s">>,
     contact |-> <<"C", "o", "n", "t", "a", "c", "t">>]
SectionFilePath ==
    [home |-> <<"h", "o", "m", "e", ".", "m", "d">>,
     about |-> <<"a", "b", "o", "u", "t", ".", "m", "d">>,
     experience |-> <<"e", "x", "p", "e", "r", "i", "e", "n", "c", "e", ".", "t", "s">>,
     projects |-> <<"p", "r", "o", "j", "e", "c", "t", "s", ".", "j", "s", "o", "n">>,
     skills |-> <<"s", "k", "i", "l", "l", "s", ".", "t", "s">>,
     education |-> <<"e", "d", "u", "c", "a", "t", "i", "o", "n", ".", "m", "d">>,
     training |-> <<"t", "r", "a", "i", "n", "i", "n", "g", ".", "m", "d">>,
     contact |-> <<"c", "o", "n", "t", "a", "c", "t", ".", "t", "s", "x">>]

\* Mutation of filteredSections: the query is matched as typed.
filteredSectionsAsTyped(value) ==
    IF trim(value) = <<>> THEN SECTIONS
    ELSE SelectSeq(SECTIONS,
                   LAMBDA id : \/ includes(toLowerCase(SectionTitle[id]), value)
                               \/ includes(toLowerCase(SectionFilePath[id]), value))

\* The filteredSections memo, as ids in catalog order.
filteredSections(value) ==
    IF trim(value) = <<>> THEN SECTIONS
    ELSE LET q == toLowerCase(value)
         IN  SelectSeq(SECTIONS,
                       LAMBDA id : \/ includes(toLowerCase(SectionTitle[id]), q)
                                   \/ includes(toLowerCase(SectionFilePath[id]), q))

\* ---------------------------------------------------------------- numbers
\* A JavaScript number is the pair <<n, d>> of the fraction n/d in lowest terms
\* with d > 0; <<1, 0>> and <<-1, 0>> are +Infinity and -Infinity and <<0, 0>>
\* is NaN.  The arithmetic is exact: the rounding of doubles is left out.
Abs(n) == IF n < 0 THEN -n ELSE n
Sign(n) == IF n < 0 THEN -1 ELSE IF n > 0 THEN 1 ELSE 0

RECURSIVE Gcd(_, _)
Gcd(a, b) == IF b = 0 THEN a ELSE Gcd(b, a % b)

Num(n, d) ==
    IF d = 0 THEN <<Sign(n), 0>>
    ELSE LET g == Gcd(Abs(n), Abs(d))
         IN  <<(Sign(d) * n) \div g, Abs(d) \div g>>

NumOf(i) == <<i, 1>>
NaN == <<0, 0>>

\* a + b, a - b, a * b, a / b
NumAdd(a, b) ==
    IF a[2] = 0 /\ b[2] = 0
    THEN (IF a[1] = b[1] THEN a ELSE NaN)
    ELSE Num(a[1] * b[2] + b[1] * a[2], a[2] * b[2])
NumSub(a, b) == NumAdd(a, <<-b[1], b[2]>>)
NumMul(a, b) == Num(a[1] * b[1], a[2] * b[2])
NumDiv(a, b) == Num(a[1] * b[2], a[2] * b[1])

\* a < b: false when either is NaN.
NumLess(a, b) ==
    IF a = NaN \/ b = NaN THEN FALSE
    ELSE IF a[2] = 0 /\ b[2] = 0 THEN a[1] < b[1]
    ELSE a[1] * b[2] < b[1] * a[2]

\* Math.max(a, b), Math.min(a, b): NaN when either is NaN.
MathMax(a, b) == IF a = NaN \/ b = NaN THEN NaN ELSE IF NumLess(a, b) THEN b ELSE a
MathMin(a, b) == IF a = NaN \/ b = NaN THEN NaN ELSE IF NumLess(b, a) THEN b ELSE a

\* A DOMRect as far as the handlers read it: getBoundingClientRect() of the
\* container, in whole pixels.
NoRect == [left |-> 0, width |-> 0]

\* History of the last handler: its name, the tab and group it was invoked on,
\* its index argument, and what it found: the length of that group's list and
\* whether the tab was that group's active tab; for a mouse handler of the
\* resizer, the event's clientX and the container's rect.
NoOp == [op |-> "init", tabId |-> NULL, group |-> NULL, index |-> -1,
         len |-> -1, wasActive |-> FALSE, clientX |-> 0, rect |-> NoRect]
Op(o, t, g, i) == [op |-> o, tabId |-> t, group |-> g, index |-> i,
                   len |-> Len(TabsOf(g)), wasActive |-> ActiveOf(g) = t,
                   clientX |-> 0, rect |-> NoRect]
MouseOp(o, clientX, rect) == [NoOp EXCEPT !.op = o, !.clientX = clientX, !.rect = rect]

\* The null of dragOffsetPx (useState<number | null>(null)).
NoOffset == <<>>

\* useState(0.5)
InitialRatio == Num(1, 2)

\* The pane limits of onMove: 100 px, and the ratios 0.2 and 0.8.
MinPanePx == 100
MinRatio == Num(1, 5)
MaxRatio == Num(4, 5)

Init ==
    /\ leftOpenTabs = HomeTabs
    /\ leftActiveTabId = "home"
    /\ rightOpenTabs = <<>>
    /\ rightActiveTabId = NULL
    /\ contextMenu = NoMenu
    /\ dragIndex = NoIndex
    /\ dragOverIndex = NoIndex
    /\ dragGesture = "none"
    /\ isResizing = FALSE
    /\ splitRatio = InitialRatio
    /\ dragOffsetPx = NoOffset
    /\ resizeSessions = 0
    /\ resizeListeners = 0
    /\ query = <<>>
    /\ resume = NULL
    /\ resumeLoading = TRUE
    /\ loadPc = "mounted"
    /\ loadLog = <<>>
    /\ lastOp = NoOp

\* ---------------------------------------------------------------- openSection
\* Mutation of OpenedTabs: the presence test is dropped.
OpenedTabsAlwaysAppend(prev, id) == Append(prev, id)

\* The updater of openSection: append unless the id is already open.
OpenedTabs(prev, id) == IF Some(prev, id) THEN prev ELSE Append(prev, id)

openSection(id, target) ==
    IF target = "left"
    THEN /\ leftOpenTabs' = OpenedTabs(leftOpenTabs, id)
         /\ leftActiveTabId' = id
         /\ UNCHANGED <<rightOpenTabs, rightActiveTabId>>
    ELSE /\ rightOpenTabs' = OpenedTabs(rightOpenTabs, id)
         /\ rightActiveTabId' = id
         /\ UNCHANGED <<leftOpenTabs, leftActiveTabId>>

\* ---------------------------------------------------------------- closeTab
\* Mutation of CloseFallback: the right neighbour is preferred.
CloseFallbackRightFirst(next, idx) ==
    IF At(next, idx) # UNDEFINED THEN At(next, idx) ELSE At(next, idx - 1)

\* next[idx - 1] || next[idx] || undefined
CloseFallback(next, idx) ==
    IF At(next, idx - 1) # UNDEFINED THEN At(next, idx - 1) ELSE At(next, idx)

\* Mutation of ClosedTabs: the home floor is dropped.
ClosedTabsNoFloor(prev, tabId, activeId, group) ==
    IF FindIndex(prev, tabId) = -1 THEN prev ELSE FilterOut(prev, tabId)

\* What the updater of closeTab returns.
ClosedTabs(prev, tabId, activeId, group) ==
    LET idx == FindIndex(prev, tabId)
        next == FilterOut(prev, tabId)
        empty == IF group = "left" THEN HomeTabs ELSE <<>>
    IN  IF idx = -1 THEN prev
        ELSE IF activeId = tabId /\ CloseFallback(next, idx) = UNDEFINED THEN empty
        ELSE IF Len(next) > 0 THEN next
        ELSE empty

\* The active id after closeTab: setActive is called only inside the updater,
\* for a tab that is present and active.
ClosedActive(prev, tabId, activeId, group) ==
    LET idx == FindIndex(prev, tabId)
        next == FilterOut(prev, tabId)
        fallback == CloseFallback(next, idx)
    IN  IF idx = -1 \/ activeId # tabId THEN activeId
        ELSE IF fallback # UNDEFINED THEN fallback
        ELSE IF group = "left" THEN "home"
        ELSE IF At(next, 0) # UNDEFINED THEN At(next, 0) ELSE NULL

closeTab(tabId, group) ==
    IF group = "left"
    THEN /\ leftOpenTabs' = ClosedTabs(leftOpenTabs, tabId, leftActiveTabId, "left")
         /\ leftActiveTabId' = ClosedActive(leftOpenTabs, tabId, leftActiveTabId, "left")
         /\ UNCHANGED <<rightOpenTabs, rightActiveTabId>>
    ELSE /\ rightOpenTabs' = ClosedTabs(rightOpenTabs, tabId, rightActiveTabId, "right")
         /\ rightActiveTabId' = ClosedActive(rightOpenTabs, tabId, rightActiveTabId, "right")
         /\ UNCHANGED <<leftOpenTabs, leftActiveTabId>>

\* ---------------------------------------------------------------- close variants
closeOthers(tabId) ==
    /\ leftOpenTabs' = FilterOnly(leftOpenTabs, tabId)
    /\ leftActiveTabId' = tabId
    /\ UNCHANGED <<rightOpenTabs, rightActiveTabId>>

\* Mutation of ClosedToRight: the slice stops before the tab itself.
ClosedToRightExclusive(prev, tabId) ==
    LET idx == FindIndex(prev, tabId)
    IN  IF idx = -1 THEN prev ELSE SliceTo(prev, idx)

ClosedToRight(prev, tabId) ==
    LET idx == FindIndex(prev, tabId)
    IN  IF idx = -1 THEN prev ELSE SliceTo(prev, idx + 1)

closeToRight(tabId) ==
    /\ leftOpenTabs' = ClosedToRight(leftOpenTabs, tabId)
    /\ leftActiveTabId' = tabId
    /\ UNCHANGED <<rightOpenTabs, rightActiveTabId>>

closeAllTabs ==
    /\ leftOpenTabs' = HomeTabs
    /\ leftActiveTabId' = "home"
    /\ rightOpenTabs' = <<>>
    /\ rightActiveTabId' = NULL

\* ---------------------------------------------------------------- splitTab
\* Mutation of SplitDestTabs: the moved tab is put in front.
SplitDestPrepends(prev, tabId) == IF Some(prev, tabId) THEN prev ELSE <<tabId>> \o prev

\* Mutation of SplitDestTabs: the presence test is dropped.
SplitDestAlwaysAppend(prev, tabId) == Append(prev, tabId)

\* The destination updater of splitTab: append unless already there.
SplitDestTabs(prev, tabId) == IF Some(prev, tabId) THEN prev ELSE Append(prev, tabId)

\* Mutation of SplitSourceTabs: the tab stays in the source group.
SplitSourceKeeps(prev, tabId) == prev

\* The source updater of splitTab.
SplitSourceTabs(prev, tabId) == FilterOut(prev, tabId)

\* Mutation of SplitSourceActive: the source group is left without an active tab.
SplitSourceActiveDefault(tabs, activeId, tabId, dflt) ==
    IF activeId = tabId THEN dflt ELSE activeId

\* "adjust active if needed": the first other tab of the source list, else dflt.
SplitSourceActive(tabs, activeId, tabId, dflt) ==
    IF activeId = tabId THEN FindOther(tabs, tabId, dflt) ELSE activeId

splitTab(tabId, direction, fromGroup) ==
    IF ~ Some(SECTIONS, tabId) THEN UNCHANGED tabVars
    ELSE IF direction = "right"
    THEN /\ rightOpenTabs' = SplitDestTabs(rightOpenTabs, tabId)
         /\ rightActiveTabId' = tabId
         /\ IF fromGroup = "left"
            THEN /\ leftOpenTabs' = SplitSourceTabs(leftOpenTabs, tabId)
                 /\ leftActiveTabId' =
                        SplitSourceActive(leftOpenTabs, leftActiveTabId, tabId, "home")
            ELSE UNCHANGED <<leftOpenTabs, leftActiveTabId>>
    ELSE /\ leftOpenTabs' = SplitDestTabs(leftOpenTabs, tabId)
         /\ leftActiveTabId' = tabId
         /\ IF fromGroup = "right"
            THEN /\ rightOpenTabs' = SplitSourceTabs(rightOpenTabs, tabId)
                 /\ rightActiveTabId' =
                        SplitSourceActive(rightOpenTabs, rightActiveTabId, tabId, NULL)
            ELSE UNCHANGED <<rightOpenTabs, rightActiveTabId>>

\* ---------------------------------------------------------------- drag-reorder
handleTabDragStart(index) ==
    /\ dragIndex' = index
    /\ dragOverIndex' = index

handleTabDragOver(index) ==
    dragOverIndex' = IF dragOverIndex # index THEN index ELSE dragOverIndex

\* const insertIndex = dragIndex < index ? index - 1 : index
InsertIndex(from, index) == IF from < index THEN index - 1 ELSE index

\* Mutation of Reordered: the dragged tab and the drop target are swapped.
ReorderedSwap(tabs, from, index) ==
    [k \in 1..Len(tabs) |->
        IF k = from + 1 THEN tabs[index + 1]
        ELSE IF k = index + 1 THEN tabs[from + 1]
        ELSE tabs[k]]

\* The list handleTabDrop stores: splice the dragged tab out, then in.
Reordered(tabs, from, index) ==
    SpliceIn(SpliceOut(tabs, from), InsertIndex(from, index), At(tabs, from))

handleTabDrop(index) ==
    IF dragIndex = NoIndex THEN UNCHANGED <<leftOpenTabs, dragIndex, dragOverIndex>>
    ELSE IF index = dragIndex
    THEN /\ dragIndex' = NoIndex
         /\ dragOverIndex' = NoIndex
         /\ UNCHANGED leftOpenTabs
    ELSE /\ leftOpenTabs' = Reordered(leftOpenTabs, dragIndex, index)
         /\ dragIndex' = NoIndex
         /\ dragOverIndex' = NoIndex

handleTabDragEnd ==
    /\ dragIndex' = NoIndex
    /\ dragOverIndex' = NoIndex

\* ---------------------------------------------------------------- load
\* load() of the mount effect (App.tsx:109-134) suspends at each await: the two
\* fetches and the two res.json().  A fetch settles with a response that is ok,
\* with one that is not, or rejects; res.json() resolves with the document
\* (which the sources' interface says is a resume record) or rejects.
FetchOutcomes == {"ok", "notOk", "rejected"}
JsonOutcomes == {"parsed", "rejected"}

\* finally { setResumeLoading(false) } after setResume(record)
Settle(record, entry) ==
    /\ resume' = record
    /\ resumeLoading' = FALSE
    /\ loadPc' = "done"
    /\ loadLog' = Append(loadLog, entry)

\* Mutation of CatchPrimary: the outer catch gives up without the fallback.
CatchPrimaryGivesUp == Settle(NULL, "primary failed")

\* The outer catch: the primary has failed and the fallback is requested.
CatchPrimary ==
    /\ loadPc' = "fetchFallback"
    /\ loadLog' = loadLog \o <<"primary failed", "GET fallback">>
    /\ UNCHANGED <<resume, resumeLoading>>

\* load() up to its first await.
loadStart ==
    /\ resumeLoading' = TRUE
    /\ loadPc' = "fetchPrimary"
    /\ loadLog' = Append(loadLog, "GET primary")
    /\ UNCHANGED resume

\* await fetch(primary) settles; if (!res.ok) throw.
primaryFetchSettles(outcome) ==
    IF outcome = "ok"
    THEN /\ loadPc' = "jsonPrimary"
         /\ UNCHANGED <<resume, resumeLoading, loadLog>>
    ELSE CatchPrimary

\* await res.json() settles; setResume(data).
primaryJsonSettles(outcome) ==
    IF outcome = "parsed" THEN Settle("primary", "primary ok") ELSE CatchPrimary

\* Mutation of fallbackFetchSettles: a failed fallback starts the load again.
fallbackFetchRetries(outcome) ==
    IF outcome = "ok"
    THEN /\ loadPc' = "jsonFallback"
         /\ UNCHANGED <<resume, resumeLoading, loadLog>>
    ELSE /\ loadPc' = "fetchPrimary"
         /\ loadLog' = <<"GET primary">>
         /\ UNCHANGED <<resume, resumeLoading>>

\* await fetch(fallback) settles; if (!res2.ok) throw, caught by setResume(null).
fallbackFetchSettles(outcome) ==
    IF outcome = "ok"
    THEN /\ loadPc' = "jsonFallback"
         /\ UNCHANGED <<resume, resumeLoading, loadLog>>
    ELSE Settle(NULL, "fallback failed")

\* await res2.json() settles; setResume(data2).
fallbackJsonSettles(outcome) ==
    IF outcome = "parsed"
    THEN Settle("fallback", "fallback ok")
    ELSE Settle(NULL, "fallback failed")

\* ---------------------------------------------------------------- renderer
\* The lines linesFromResume builds for a section out of a loaded record: they
\* depend on the record's content, of which the model keeps the source only.
RecordLines(record, section) == <<"lines of", record, section>>

\* linesFromResume (App.tsx:598-669): null without a record, and for an id that
\* is no section.
linesFromResume(section) ==
    IF resume = NULL THEN NULL
    ELSE IF Some(SECTIONS, section) THEN RecordLines(resume, section)
    ELSE NULL

\* The static copy (App.tsx:674-685).
StaticLines(id) ==
    IF id = "home"
    THEN <<"# Lalit Sharma", "Software Engineer", "", "GitHub:  github.com/lalitbing">>
    ELSE <<>>

\* The placeholder of renderEditorContent; "..." stands for the ellipsis character.
LoadingLines == <<"# Loading...", "", "Fetching resume data...">>

getSectionLines(id) ==
    IF linesFromResume(id) # NULL THEN linesFromResume(id) ELSE StaticLines(id)

\* Mutation of renderEditorContent: no special case for 'home' while loading.
renderSectionLines(id) == getSectionLines(id)

\* The lines handed to <Editor> (App.tsx:767-773).
renderEditorContent(id) ==
    IF resumeLoading /\ id = "home" THEN LoadingLines ELSE getSectionLines(id)

\* ---------------------------------------------------------------- resize
\* Mutation of MovedRatio: the ratio is stored without the clamp to [0.2, 0.8].
MovedRatioUnclamped(clientX, rect, offsetPx) ==
    LET offset == IF offsetPx = NoOffset THEN NumOf(0) ELSE offsetPx
        rawX == NumSub(NumSub(NumOf(clientX), NumOf(rect.left)), offset)
        clampedX == MathMin(MathMax(rawX, NumOf(MinPanePx)), NumOf(rect.width - MinPanePx))
    IN  NumDiv(clampedX, NumOf(rect.width))

\* What onMove passes to setSplitRatio.
MovedRatio(clientX, rect, offsetPx) ==
    LET offset == IF offsetPx = NoOffset THEN NumOf(0) ELSE offsetPx
        rawX == NumSub(NumSub(NumOf(clientX), NumOf(rect.left)), offset)
        clampedX == MathMin(MathMax(rawX, NumOf(MinPanePx)), NumOf(rect.width - MinPanePx))
        ratio == NumDiv(clampedX, NumOf(rect.width))
    IN  MathMin(MathMax(ratio, MinRatio), MaxRatio)

\* onMove: contentRef.current is the mounted container, never null.
onMove(clientX, rect) ==
    IF ~ isResizing THEN UNCHANGED resizeVars
    ELSE /\ splitRatio' = MovedRatio(clientX, rect, dragOffsetPx)
         /\ UNCHANGED <<isResizing, dragOffsetPx>>

\* Mutation of onUp: the end of a session puts the divider back to the middle.
onUpResetsRatio ==
    /\ isResizing' = FALSE
    /\ dragOffsetPx' = NoOffset
    /\ splitRatio' = InitialRatio

onUp ==
    /\ isResizing' = FALSE
    /\ dragOffsetPx' = NoOffset
    /\ UNCHANGED splitRatio

\* onMouseDown of the resizer.
resizerMouseDown(clientX, rect) ==
    LET currentSplitterX == NumAdd(NumOf(rect.left), NumMul(splitRatio, NumOf(rect.width)))
    IN  /\ isResizing' = TRUE
        /\ dragOffsetPx' = NumSub(NumOf(clientX), currentSplitterX)
        /\ UNCHANGED splitRatio

\* Mutation of resizeEffect: the cleanup removes nothing.
resizeEffectLeaks ==
    resizeListeners' =
        IF isResizing' = isResizing THEN resizeListeners
        ELSE resizeListeners + (IF isResizing' THEN 1 ELSE 0)

\* The effect on [isResizing] (App.tsx:136-168): when isResizing has changed,
\* the cleanup of the previous run removes the listeners that run registered
\* and the new run registers its own if isResizing.
resizeEffect ==
    resizeListeners' =
        IF isResizing' = isResizing THEN resizeListeners
        ELSE (resizeListeners - (IF isResizing THEN 1 ELSE 0))
                 + (IF isResizing' THEN 1 ELSE 0)

\* A mousemove on the document runs onMove if it is registered.
documentMouseMove(clientX, rect) ==
    IF resizeListeners > 0 THEN onMove(clientX, rect) ELSE UNCHANGED resizeVars

\* Mutation of showSplit: the split buttons are always rendered.
showSplitAlways == contextMenu # NoMenu

\* showSplit of the rendered TabContextMenu (App.tsx:982)
showSplit ==
    /\ contextMenu # NoMenu
    /\ (IF contextMenu.group = "left" THEN Len(leftOpenTabs) ELSE Len(rightOpenTabs)) >= 2


\* ================================================================ events
\* A drag-and-drop gesture suppresses every other device input event until its
\* dragend, so clicks and keys are enabled only while no tab is being dragged;
\* and a click comes after a mouseup, which ends a resize session (onUp).
NoDrag == dragIndex = NoIndex /\ dragGesture = "none"
Idle == NoDrag /\ ~ isResizing

\* Mutation of closeMenu: the menu is left as it is.
closeMenuKeeps == contextMenu' = contextMenu

\* The document 'click' listener registered while a menu is open (App.tsx:170-181):
\* a click that reaches the document closes the menu.
closeMenu == contextMenu' = NoMenu

\* Explorer entry clicked: onClick={() => openSection(s)}  (App.tsx:842)
ExplorerClick(id) ==
    /\ Idle
    /\ openSection(id, "left")
    /\ closeMenu
    /\ UNCHANGED dragVars
    /\ UNCHANGED otherVars
    /\ lastOp' = Op("openSection", id, "left", -1)

\* Tab clicked: onClick={() => setLeftActiveTabId(tab.id)}  (App.tsx:870, 932)
TabClick(index, group) ==
    /\ Idle
    /\ index \in 0..(Len(TabsOf(group)) - 1)
    /\ IF group = "left"
       THEN /\ leftActiveTabId' = At(leftOpenTabs, index)
            /\ UNCHANGED <<leftOpenTabs, rightOpenTabs, rightActiveTabId>>
       ELSE /\ rightActiveTabId' = At(rightOpenTabs, index)
            /\ UNCHANGED <<leftOpenTabs, leftActiveTabId, rightOpenTabs>>
    /\ closeMenu
    /\ UNCHANGED dragVars
    /\ UNCHANGED otherVars
    /\ lastOp' = Op("setActive", At(TabsOf(group), index), group, index)

\* The x button of a tab: e.stopPropagation(); closeTab(tab.id, group).
\* Whether the native click still reaches the document listener that closes an
\* open menu depends on where React delegates events (the document in React 16,
\* the root container from React 17 on): both outcomes are kept.
TabCloseButton(index, group, reachesDocument) ==
    /\ Idle
    /\ index \in 0..(Len(TabsOf(group)) - 1)
    /\ closeTab(At(TabsOf(group), index), group)
    /\ contextMenu' = IF reachesDocument THEN NoMenu ELSE contextMenu
    /\ UNCHANGED dragVars
    /\ UNCHANGED otherVars
    /\ lastOp' = Op("closeTab", At(TabsOf(group), index), group, index)

\* Right click on a tab: setContextMenu({..., tabId: tab.id, group})
TabContextMenuOpen(index, group) ==
    /\ Idle
    /\ index \in 0..(Len(TabsOf(group)) - 1)
    /\ contextMenu' = TabMenu(At(TabsOf(group), index), group)
    /\ UNCHANGED <<tabVars, dragVars>>
    /\ UNCHANGED otherVars
    /\ lastOp' = Op("contextMenu", At(TabsOf(group), index), group, index)

\* Escape, or a click, scroll or resize outside the menu: setContextMenu(null)
DismissMenu ==
    /\ NoDrag
    /\ contextMenu # NoMenu
    /\ closeMenu
    /\ UNCHANGED <<tabVars, dragVars>>
    /\ UNCHANGED otherVars
    /\ lastOp' = Op("dismissMenu", contextMenu.tabId, contextMenu.group, -1)

\* The buttons of TabContextMenu: the action, then onClose().
MenuClose ==
    /\ Idle
    /\ contextMenu # NoMenu
    /\ closeTab(contextMenu.tabId, contextMenu.group)
    /\ closeMenu
    /\ UNCHANGED dragVars
    /\ UNCHANGED otherVars
    /\ lastOp' = Op("menuClose", contextMenu.tabId, contextMenu.group, -1)

MenuCloseOthers ==
    /\ Idle
    /\ contextMenu # NoMenu
    /\ closeOthers(contextMenu.tabId)
    /\ closeMenu
    /\ UNCHANGED dragVars
    /\ UNCHANGED otherVars
    /\ lastOp' = Op("closeOthers", contextMenu.tabId, contextMenu.group, -1)

MenuCloseRight ==
    /\ Idle
    /\ contextMenu # NoMenu
    /\ closeToRight(contextMenu.tabId)
    /\ closeMenu
    /\ UNCHANGED dragVars
    /\ UNCHANGED otherVars
    /\ lastOp' = Op("closeToRight", contextMenu.tabId, contextMenu.group, -1)

MenuCloseAll ==
    /\ Idle
    /\ contextMenu # NoMenu
    /\ closeAllTabs
    /\ closeMenu
    /\ UNCHANGED dragVars
    /\ UNCHANGED otherVars
    /\ lastOp' = Op("closeAll", contextMenu.tabId, contextMenu.group, -1)

MenuSplit(direction) ==
    /\ Idle
    /\ showSplit
    /\ splitTab(contextMenu.tabId, direction, contextMenu.group)
    /\ closeMenu
    /\ UNCHANGED dragVars
    /\ UNCHANGED otherVars
    /\ lastOp' = Op(IF direction = "left" THEN "splitLeft" ELSE "splitRight",
                    contextMenu.tabId, contextMenu.group, -1)

MenuSplitLeft == MenuSplit("left")
MenuSplitRight == MenuSplit("right")

\* Drag gesture on a left tab: dragstart, dragover*, then a drop on a tab or none,
\* and the dragend that always closes the gesture.
DragStart(index) ==
    /\ Idle
    /\ index \in 0..(Len(leftOpenTabs) - 1)
    /\ handleTabDragStart(index)
    /\ dragGesture' = "tab"
    /\ UNCHANGED <<tabVars, contextMenu>>
    /\ UNCHANGED otherVars
    /\ lastOp' = Op("dragStart", At(leftOpenTabs, index), "left", index)

DragOver(index) ==
    /\ dragIndex # NoIndex
    /\ index \in 0..(Len(leftOpenTabs) - 1)
    /\ handleTabDragOver(index)
    /\ UNCHANGED <<tabVars, contextMenu, dragIndex, dragGesture>>
    /\ UNCHANGED otherVars
    /\ lastOp' = Op("dragOver", At(leftOpenTabs, dragIndex), "left", index)

Drop(index) ==
    /\ dragIndex # NoIndex
    /\ index \in 0..(Len(leftOpenTabs) - 1)
    /\ handleTabDrop(index)
    /\ dragGesture' = "none"
    /\ UNCHANGED <<leftActiveTabId, rightOpenTabs, rightActiveTabId, contextMenu>>
    /\ UNCHANGED otherVars
    /\ lastOp' = Op("drop", At(leftOpenTabs, dragIndex), "left", index)

DragEnd ==
    /\ dragIndex # NoIndex
    /\ handleTabDragEnd
    /\ dragGesture' = "none"
    /\ UNCHANGED <<tabVars, contextMenu>>
    /\ UNCHANGED otherVars
    /\ lastOp' = Op("dragEnd", At(leftOpenTabs, dragIndex), "left", -1)

\* A drag that did not start on a left tab (selected text, a file from the
\* desktop): no dragstart handler of the app runs.
ForeignDragStart ==
    /\ Idle
    /\ dragGesture' = "foreign"
    /\ UNCHANGED <<tabVars, contextMenu, dragIndex, dragOverIndex>>
    /\ UNCHANGED otherVars
    /\ lastOp' = [NoOp EXCEPT !.op = "foreignDragStart"]

\* It is dragged over a left tab: onDragOver of the tab (App.tsx:877).
ForeignDragOver(index) ==
    /\ dragGesture = "foreign"
    /\ index \in 0..(Len(leftOpenTabs) - 1)
    /\ handleTabDragOver(index)
    /\ UNCHANGED <<tabVars, contextMenu, dragIndex, dragGesture>>
    /\ UNCHANGED otherVars
    /\ lastOp' = Op("foreignDragOver", UNDEFINED, "left", index)

\* It is dropped on a left tab, which is a drop target since its dragover
\* handler prevents the default: onDrop of the tab (App.tsx:878).
ForeignDrop(index) ==
    /\ dragGesture = "foreign"
    /\ index \in 0..(Len(leftOpenTabs) - 1)
    /\ handleTabDrop(index)
    /\ dragGesture' = "none"
    /\ UNCHANGED <<leftActiveTabId, rightOpenTabs, rightActiveTabId, contextMenu>>
    /\ UNCHANGED otherVars
    /\ lastOp' = Op("foreignDrop", UNDEFINED, "left", index)

\* It is dropped elsewhere or cancelled: its dragend, if any, is dispatched at
\* its source, which is no tab, so handleTabDragEnd does not run.
ForeignDragEnd ==
    /\ dragGesture = "foreign"
    /\ dragGesture' = "none"
    /\ UNCHANGED <<tabVars, contextMenu, dragIndex, dragOverIndex>>
    /\ UNCHANGED otherVars
    /\ lastOp' = [NoOp EXCEPT !.op = "foreignDragEnd"]

\* ---------------------------------------------------------------- search box
\* Keys reach the search box once Ctrl/Cmd+K has focused it (App.tsx:98-101);
\* a key press is no click, so it leaves an open context menu alone.
\* onChange={(e) => setQuery(e.target.value)}  (App.tsx:786)
SearchChange(value) ==
    /\ NoDrag
    /\ query' = value
    /\ UNCHANGED <<tabVars, contextMenu, dragVars, paneVars, loadVars>>
    /\ lastOp' = [NoOp EXCEPT !.op = "searchChange"]

\* Mutation of SearchEnter: the query stays in the box after the commit.
SearchEnterKeepsQuery ==
    LET first == At(filteredSections(query), 0)
    IN  /\ NoDrag
        /\ IF first # UNDEFINED
           THEN openSection(first, "left")
           ELSE UNCHANGED tabVars
        /\ UNCHANGED <<query, contextMenu, dragVars, paneVars, loadVars>>
        /\ lastOp' = Op("searchEnter", first, "left", -1)

\* Enter in the search box (App.tsx:789-796): the first filtered section, if any,
\* is opened and the query is cleared.
SearchEnter ==
    LET first == At(filteredSections(query), 0)
    IN  /\ NoDrag
        /\ IF first # UNDEFINED
           THEN /\ openSection(first, "left")
                /\ query' = <<>>
           ELSE UNCHANGED <<tabVars, query>>
        /\ UNCHANGED <<contextMenu, dragVars, paneVars, loadVars>>
        /\ lastOp' = Op("searchEnter", first, "left", -1)

\* Mutation of SearchEscape: the query stays in the box.
SearchEscapeKeepsQuery ==
    /\ NoDrag
    /\ closeMenu
    /\ UNCHANGED <<tabVars, dragVars, paneVars, loadVars, query>>
    /\ lastOp' = [NoOp EXCEPT !.op = "searchEscape", !.tabId = contextMenu.tabId,
                              !.group = contextMenu.group, !.len = Len(query)]

\* Escape in the search box (App.tsx:788) clears the query; the keydown event
\* then bubbles to the window listener (App.tsx:102-104), which closes the
\* context menu.
SearchEscape ==
    /\ NoDrag
    /\ query' = <<>>
    /\ closeMenu
    /\ UNCHANGED <<tabVars, dragVars, paneVars, loadVars>>
    /\ lastOp' = [NoOp EXCEPT !.op = "searchEscape", !.tabId = contextMenu.tabId,
                              !.group = contextMenu.group, !.len = Len(query)]

\* A result of the dropdown clicked (App.tsx:809-812); the dropdown is rendered
\* while query.trim() is not empty (App.tsx:800).
SearchResultClick(k) ==
    /\ Idle
    /\ trim(query) # <<>>
    /\ k < Len(filteredSections(query))
    /\ openSection(At(filteredSections(query), k), "left")
    /\ query' = <<>>
    /\ closeMenu
    /\ UNCHANGED <<dragVars, paneVars, loadVars>>
    /\ lastOp' = Op("searchResultClick", At(filteredSections(query), k), "left", k)

\* ---------------------------------------------------------------- content load
\* The steps of load(): promise reactions, which run between any two events.
LoadStep(op) ==
    /\ UNCHANGED <<tabVars, contextMenu, dragVars, paneVars, query>>
    /\ lastOp' = [NoOp EXCEPT !.op = op]

LoadStart == loadPc = "mounted" /\ loadStart /\ LoadStep("loadStart")

PrimaryFetchSettles(outcome) ==
    loadPc = "fetchPrimary" /\ primaryFetchSettles(outcome) /\ LoadStep("primaryFetch")

PrimaryJsonSettles(outcome) ==
    loadPc = "jsonPrimary" /\ primaryJsonSettles(outcome) /\ LoadStep("primaryJson")

FallbackFetchSettles(outcome) ==
    loadPc = "fetchFallback" /\ fallbackFetchSettles(outcome) /\ LoadStep("fallbackFetch")

FallbackJsonSettles(outcome) ==
    loadPc = "jsonFallback" /\ fallbackJsonSettles(outcome) /\ LoadStep("fallbackJson")

\* The resizer is rendered while the right group has tabs (App.tsx:905).
ResizerMouseDown(clientX, rect) ==
    /\ Idle
    /\ Len(rightOpenTabs) > 0
    /\ resizeSessions < MaxResizeSessions
    /\ resizerMouseDown(clientX, rect)
    /\ resizeEffect
    /\ resizeSessions' = resizeSessions + 1
    /\ UNCHANGED <<tabVars, contextMenu, dragVars, query, loadVars>>
    /\ lastOp' = MouseOp("resizerMouseDown", clientX, rect)

\* The document listeners of the resize effect exist while isResizing.
ResizeMouseMove(clientX, rect) ==
    /\ isResizing
    /\ documentMouseMove(clientX, rect)
    /\ UNCHANGED <<tabVars, contextMenu, dragVars, resizeSessions, resizeListeners, query, loadVars>>
    /\ lastOp' = MouseOp("resizeMove", clientX, rect)

ResizeMouseUp ==
    /\ isResizing
    /\ onUp
    /\ resizeEffect
    /\ UNCHANGED <<tabVars, contextMenu, dragVars, resizeSessions, query, loadVars>>
    /\ lastOp' = MouseOp("resizeUp", 0, NoRect)

\* The pointer moves over the page while no resize session is active.
PointerMove(clientX, rect) ==
    /\ Idle
    /\ documentMouseMove(clientX, rect)
    /\ UNCHANGED <<tabVars, contextMenu, dragVars, resizeSessions, resizeListeners, query, loadVars>>
    /\ lastOp' = MouseOp("pointerMove", clientX, rect)

\* ================================================================ specifications
\* The tab workspace: the explorer, the tab bars, the context menu and
\* drag-reorder.  The search box, the resizer and the content load are composed
\* with parts of it in the specifications further down.
Next ==
    \/ \E id \in SectionIds : ExplorerClick(id)
    \/ \E i \in 0..(NumSections - 1), g \in Groups : TabClick(i, g)
    \/ \E i \in 0..(NumSections - 1), g \in Groups, r \in BOOLEAN : TabCloseButton(i, g, r)
    \/ \E i \in 0..(NumSections - 1), g \in Groups : TabContextMenuOpen(i, g)
    \/ DismissMenu
    \/ MenuClose
    \/ MenuCloseOthers
    \/ MenuCloseRight
    \/ MenuCloseAll
    \/ MenuSplitLeft
    \/ MenuSplitRight
    \/ \E i \in 0..(NumSections - 1) : DragStart(i)
    \/ \E i \in 0..(NumSections - 1) : DragOver(i)
    \/ \E i \in 0..(NumSections - 1) : Drop(i)
    \/ DragEnd

Spec == Init /\ [][Next]_vars

\* The user works with the explorer, the tab bars and the context menu only.
NextMenu ==
    \/ \E id \in SectionIds : ExplorerClick(id)
    \/ \E i \in 0..(NumSections - 1), g \in Groups : TabClick(i, g)
    \/ \E i \in 0..(NumSections - 1), g \in Groups, r \in BOOLEAN : TabCloseButton(i, g, r)
    \/ \E i \in 0..(NumSections - 1), g \in Groups : TabContextMenuOpen(i, g)
    \/ DismissMenu
    \/ MenuClose
    \/ MenuCloseOthers
    \/ MenuCloseRight
    \/ MenuCloseAll
    \/ MenuSplitLeft
    \/ MenuSplitRight

SpecMenu == Init /\ [][NextMenu]_vars

\* The same, in a build where every click reaches the document listener, so that
\* a menu never outlives a click.
NextClicksClose ==
    \/ \E id \in SectionIds : ExplorerClick(id)
    \/ \E i \in 0..(NumSections - 1), g \in Groups : TabClick(i, g)
    \/ \E i \in 0..(NumSections - 1), g \in Groups : TabCloseButton(i, g, TRUE)
    \/ \E i \in 0..(NumSections - 1), g \in Groups : TabContextMenuOpen(i, g)
    \/ DismissMenu
    \/ MenuClose
    \/ MenuCloseOthers
    \/ MenuCloseRight
    \/ MenuCloseAll
    \/ MenuSplitLeft
    \/ MenuSplitRight

SpecClicksClose == Init /\ [][NextClicksClose]_vars

\* The user works with the explorer and the left tab bar only: open, activate,
\* close and drag-reorder on the left group, no context menu.
NextLeft ==
    \/ \E id \in SectionIds : ExplorerClick(id)
    \/ \E i \in 0..(NumSections - 1) : TabClick(i, "left")
    \/ \E i \in 0..(NumSections - 1), r \in BOOLEAN : TabCloseButton(i, "left", r)
    \/ \E i \in 0..(NumSections - 1) : DragStart(i)
    \/ \E i \in 0..(NumSections - 1) : DragOver(i)
    \/ \E i \in 0..(NumSections - 1) : Drop(i)
    \/ DragEnd

SpecLeft == Init /\ [][NextLeft]_vars

\* The same, with drags that start outside the left tab bar.
NextDrag ==
    \/ \E id \in SectionIds : ExplorerClick(id)
    \/ \E i \in 0..(NumSections - 1) : TabClick(i, "left")
    \/ \E i \in 0..(NumSections - 1), r \in BOOLEAN : TabCloseButton(i, "left", r)
    \/ \E i \in 0..(NumSections - 1) : DragStart(i)
    \/ \E i \in 0..(NumSections - 1) : DragOver(i)
    \/ \E i \in 0..(NumSections - 1) : Drop(i)
    \/ DragEnd
    \/ ForeignDragStart
    \/ \E i \in 0..(NumSections - 1) : ForeignDragOver(i)
    \/ \E i \in 0..(NumSections - 1) : ForeignDrop(i)
    \/ ForeignDragEnd

SpecDrag == Init /\ [][NextDrag]_vars

\* openSection(section, 'right') has no caller in App.tsx (every caller takes the
\* default target 'left'): the operation applied directly, to either group.
OpenSectionCall(id, target) ==
    /\ Idle
    /\ openSection(id, target)
    /\ UNCHANGED <<contextMenu, dragVars>>
    /\ UNCHANGED otherVars
    /\ lastOp' = Op("openSection", id, target, -1)

NextOpen ==
    \/ \E id \in SectionIds, g \in Groups : OpenSectionCall(id, g)
    \/ \E i \in 0..(NumSections - 1), g \in Groups : TabClick(i, g)
    \/ \E i \in 0..(NumSections - 1), g \in Groups : TabCloseButton(i, g, TRUE)

SpecOpen == Init /\ [][NextOpen]_vars

\* The pointer positions and container rects of the mouse events: a full-width
\* window, a container that does not start at the window's edge, a container
\* narrower than two minimal panes, and a collapsed container.
GrabXs == {500}
PointerXs == {50, 500, 990}
Rects == {[left |-> 0, width |-> 1000], [left |-> 20, width |-> 400],
          [left |-> 0, width |-> 150], [left |-> 0, width |-> 0]}

\* The user opens 'about', splits left tabs to the right, closes right tabs, and
\* drags the resizer.
NextResize ==
    \/ ExplorerClick("about")
    \/ \E i \in 0..(NumSections - 1) : TabContextMenuOpen(i, "left")
    \/ MenuSplitRight
    \/ \E i \in 0..(NumSections - 1) : TabCloseButton(i, "right", TRUE)
    \/ \E x \in GrabXs, r \in Rects : ResizerMouseDown(x, r)
    \/ \E x \in PointerXs, r \in Rects : ResizeMouseMove(x, r)
    \/ ResizeMouseUp

SpecResize == Init /\ [][NextResize]_vars

\* Every tab operation next to the resizer, on the tabs 'home' and 'about': the
\* explorer, the close buttons, the context menu (every click reaching the
\* document), drag-reorder, and resize sessions in a 1000 px container.
WideRect == [left |-> 0, width |-> 1000]

NextPanes ==
    \/ ExplorerClick("about")
    \/ \E i \in 0..(NumSections - 1), g \in Groups : TabCloseButton(i, g, TRUE)
    \/ \E i \in 0..(NumSections - 1), g \in Groups : TabContextMenuOpen(i, g)
    \/ MenuClose
    \/ MenuCloseOthers
    \/ MenuCloseRight
    \/ MenuCloseAll
    \/ MenuSplitLeft
    \/ MenuSplitRight
    \/ \E i \in 0..(NumSections - 1) : DragStart(i)
    \/ \E i \in 0..(NumSections - 1) : Drop(i)
    \/ DragEnd
    \/ ResizerMouseDown(500, WideRect)
    \/ \E x \in PointerXs : ResizeMouseMove(x, WideRect)
    \/ ResizeMouseUp
    \/ \E x \in PointerXs : PointerMove(x, WideRect)

SpecPanes == Init /\ [][NextPanes]_vars

\* What the user types into the search box: a query whose first match is
\* 'about' (upper case typed), and one that matches nothing.
Queries == {<<"A", "b">>, <<"z", "z">>}

\* The user works with the search box (typing, Enter, Escape, the first result
\* of the dropdown), the tab bars and the split actions of the context menu.
NextKeys ==
    \/ \E value \in Queries : SearchChange(value)
    \/ SearchEnter
    \/ SearchEscape
    \/ SearchResultClick(0)
    \/ \E i \in 0..(NumSections - 1), g \in Groups, r \in BOOLEAN : TabCloseButton(i, g, r)
    \/ \E i \in 0..(NumSections - 1), g \in Groups : TabContextMenuOpen(i, g)
    \/ DismissMenu
    \/ MenuSplitLeft
    \/ MenuSplitRight

SpecKeys == Init /\ [][NextKeys]_vars

\* What the user types into the search box: nothing, white space only, a title
\* in mixed case, an extension in upper case, a piece of a title that is in no
\* path, a word followed by a blank, a single letter, and no match.
Typed ==
    {<<>>, <<" ">>, <<" ", "\t">>, <<"a", "B">>, <<".", "T", "S">>, <<"g", " ", "&">>,
     <<"o", "m", "e", " ">>, <<"E">>, <<"z", "z">>}

\* The user works with the search box (typing, Enter, Escape, the first result
\* of the dropdown) and closes tabs.
NextSearch ==
    \/ \E value \in Typed : SearchChange(value)
    \/ SearchEnter
    \/ SearchEscape
    \/ SearchResultClick(0)
    \/ \E i \in 0..NumSections : TabCloseButton(i, "left", TRUE)

SpecSearch == Init /\ [][NextSearch]_vars

\* The content load while the user works with the explorer and the left tab bar.
NextLoad ==
    \/ LoadStart
    \/ \E o \in FetchOutcomes : PrimaryFetchSettles(o)
    \/ \E o \in JsonOutcomes : PrimaryJsonSettles(o)
    \/ \E o \in FetchOutcomes : FallbackFetchSettles(o)
    \/ \E o \in JsonOutcomes : FallbackJsonSettles(o)
    \/ \E id \in SectionIds : ExplorerClick(id)
    \/ \E i \in 0..(NumSections - 1) : TabClick(i, "left")
    \/ \E i \in 0..(NumSections - 1) : TabCloseButton(i, "left", TRUE)

SpecLoad == Init /\ [][NextLoad]_vars

\* The same with the scheduling of the load: the mount effect runs after the
\* first render, and every fetch and every res.json() that was issued settles.
LoadFairness ==
    /\ WF_vars(LoadStart)
    /\ WF_vars(\E o \in FetchOutcomes : PrimaryFetchSettles(o))
    /\ WF_vars(\E o \in JsonOutcomes : PrimaryJsonSettles(o))
    /\ WF_vars(\E o \in FetchOutcomes : FallbackFetchSettles(o))
    /\ WF_vars(\E o \in JsonOutcomes : FallbackJsonSettles(o))

SpecLoadFair == SpecLoad /\ LoadFairness

\* ================================================================ claims
IsMember(id, tabs) == \E i \in DOMAIN tabs : tabs[i] = id

\* C1: in every reachable state each group's activeTabId is none or the id of a
\* tab in that group's list.  (Refuted: Close Others / Close to the Right of a
\* menu opened on a right-group tab act on the left group.)
C1_ActiveIsMember ==
    /\ (leftActiveTabId = NULL \/ IsMember(leftActiveTabId, leftOpenTabs))
    /\ (rightActiveTabId = NULL \/ IsMember(rightActiveTabId, rightOpenTabs))

\* C2: in every reachable state the left group's tab list is non-empty.
\* (Refuted: Close Others of a menu on a right-group tab that is not open on
\* the left filters the left list down to nothing.)
C2_LeftNonEmpty == Len(leftOpenTabs) > 0

\* ---------------------------------------------------------------- vocabulary
\* The lists and active ids of a group before and after a step.
NewTabsOf(group) == IF group = "left" THEN leftOpenTabs' ELSE rightOpenTabs'
NewActiveOf(group) == IF group = "left" THEN leftActiveTabId' ELSE rightActiveTabId'
OtherGroup(group) == IF group = "left" THEN "right" ELSE "left"

\* 1-based position of id in tabs.
PosOf(id, tabs) == CHOOSE i \in DOMAIN tabs : tabs[i] = id

\* tabs without its element at 1-based position p.
Without(tabs, p) == [j \in 1..(Len(tabs) - 1) |-> IF j < p THEN tabs[j] ELSE tabs[j + 1]]

Count(id, tabs) == Cardinality({i \in DOMAIN tabs : tabs[i] = id})

\* The step ran closeTab(tabId, group), from the x button or from the menu.
CloseStep == lastOp'.op \in {"closeTab", "menuClose"}

\* The list of a group reduced to nothing: the home floor on the left.
Floor(group) == IF group = "left" THEN <<"home">> ELSE <<>>

\* C3: with only open(section,'left') and close(tabId,'left') (and the other
\* left tab-bar gestures) the left list is never empty, and closing its only
\* remaining tab resets it to exactly [home] with active = home.
C3_OpenCloseHomeFloor ==
    [][ /\ Len(leftOpenTabs') > 0
        /\ (lastOp'.op = "closeTab" /\ lastOp'.len = 1)
              => (leftOpenTabs' = <<"home">> /\ leftActiveTabId' = "home") ]_vars

\* C3 witness: the only tab, 'about', was closed and the group was reset to [home].
C3_Witness ==
    /\ lastOp.op = "closeTab" /\ lastOp.tabId = "about" /\ lastOp.len = 1
    /\ leftOpenTabs = <<"home">>
    /\ leftActiveTabId = "home"

\* What close of the present, active tab at 1-based position p of prev must leave.
ExpectedActive(prev, p, group) ==
    IF p > 1 THEN prev[p - 1]
    ELSE IF Len(prev) > 1 THEN prev[2]
    ELSE IF group = "left" THEN "home" ELSE NULL

ExpectedTabs(prev, p, group) == IF Len(prev) > 1 THEN Without(prev, p) ELSE Floor(group)

\* The part of C4 that holds of every close of a present, active tab.
CloseActiveRule(tabId, group) ==
    LET prev == TabsOf(group)
        p == PosOf(tabId, prev)
    IN  /\ NewTabsOf(group) = ExpectedTabs(prev, p, group)
        /\ NewActiveOf(group) = ExpectedActive(prev, p, group)
        /\ (NewActiveOf(group) = NULL \/ IsMember(NewActiveOf(group), NewTabsOf(group)))

ClosesActive ==
    /\ CloseStep
    /\ lastOp'.wasActive
    /\ IsMember(lastOp'.tabId, TabsOf(lastOp'.group))

\* C4 as stated: close of the active tab makes the left neighbour active, else
\* the tab now at the removed position, else none (right) or home (left, reset
\* to [home]); the new active id is none or in the resulting list, and it never
\* is the id of the removed tab.
C4_AsStated ==
    [][ ClosesActive =>
          /\ CloseActiveRule(lastOp'.tabId, lastOp'.group)
          /\ NewActiveOf(lastOp'.group) # lastOp'.tabId ]_vars

\* C4 amended: as stated, except that closing 'home' as the only tab of the
\* left group resets the group to [home], whose active id is 'home' again.
C4_CloseActive ==
    [][ ClosesActive =>
          /\ CloseActiveRule(lastOp'.tabId, lastOp'.group)
          /\ (NewActiveOf(lastOp'.group) = lastOp'.tabId
                => /\ lastOp'.group = "left"
                   /\ lastOp'.tabId = "home"
                   /\ leftOpenTabs = <<"home">>
                   /\ leftOpenTabs' = <<"home">>) ]_vars

\* C4 witness: [home, about, experience] with 'experience' active, close(experience):
\* the left neighbour 'about' is active.
C4_Witness ==
    /\ lastOp.op \in {"closeTab", "menuClose"}
    /\ lastOp.tabId = "experience" /\ lastOp.group = "left"
    /\ lastOp.wasActive /\ lastOp.len = 3
    /\ leftOpenTabs = <<"home", "about">>
    /\ leftActiveTabId = "about"

\* C5: close of a present tab that is not the group's active tab removes exactly
\* that tab, keeps the order of the others, and leaves that group's active id and
\* the other group unchanged.
C5_CloseInactive ==
    [][ (/\ CloseStep
         /\ ~ lastOp'.wasActive
         /\ IsMember(lastOp'.tabId, TabsOf(lastOp'.group)))
        => /\ NewTabsOf(lastOp'.group) =
                  Without(TabsOf(lastOp'.group), PosOf(lastOp'.tabId, TabsOf(lastOp'.group)))
           /\ NewActiveOf(lastOp'.group) = ActiveOf(lastOp'.group)
           /\ NewTabsOf(OtherGroup(lastOp'.group)) = TabsOf(OtherGroup(lastOp'.group))
           /\ NewActiveOf(OtherGroup(lastOp'.group)) = ActiveOf(OtherGroup(lastOp'.group)) ]_vars

\* C6: open(section, group) leaves the list unchanged if the id is already in it
\* and appends exactly one tab at the end otherwise; the group's active id
\* becomes the id, the other group is unchanged, and a second open of the same
\* section changes nothing.
C6_Open ==
    [][ lastOp'.op = "openSection" =>
          /\ NewTabsOf(lastOp'.group) =
                 IF IsMember(lastOp'.tabId, TabsOf(lastOp'.group))
                 THEN TabsOf(lastOp'.group)
                 ELSE TabsOf(lastOp'.group) \o <<lastOp'.tabId>>
          /\ NewActiveOf(lastOp'.group) = lastOp'.tabId
          /\ NewTabsOf(OtherGroup(lastOp'.group)) = TabsOf(OtherGroup(lastOp'.group))
          /\ NewActiveOf(OtherGroup(lastOp'.group)) = ActiveOf(OtherGroup(lastOp'.group))
          /\ (/\ lastOp.op = "openSection"
              /\ lastOp.tabId = lastOp'.tabId
              /\ lastOp.group = lastOp'.group) => tabVars' = tabVars ]_vars

\* C6 witness: open(about) on a right group [about, home] that already holds it:
\* the list is as it was (still 2 long, 'about' first) and 'about' is active.
C6_Witness ==
    /\ lastOp.op = "openSection" /\ lastOp.tabId = "about" /\ lastOp.group = "right"
    /\ lastOp.len = 2 /\ ~ lastOp.wasActive
    /\ rightOpenTabs = <<"about", "home">>
    /\ rightActiveTabId = "about"

\* C7: in every reachable state no section id occurs twice within one group's
\* list; moving a tab to a group that already holds the id adds no second copy.
C7_NoDuplicates ==
    \A g \in Groups : \A id \in SectionIds \cup {UNDEFINED} : Count(id, TabsOf(g)) <= 1

\* C7 witness: 'about' split right from the left group while the right group
\* already held it (it stands before 'home', so it was not appended now).
C7_Witness ==
    /\ lastOp.op = "splitRight" /\ lastOp.tabId = "about" /\ lastOp.group = "left"
    /\ rightOpenTabs = <<"about", "home">>
    /\ rightActiveTabId = "about"
    /\ ~ IsMember("about", leftOpenTabs)

\* The tabs other than id, in order.
Others(tabs, id) == SelectSeq(tabs, LAMBDA t : t # id)

\* The step completed a drag-reorder: a drop on another tab than the dragged one.
ReorderStep ==
    /\ lastOp'.op = "drop"
    /\ dragIndex # NoIndex
    /\ lastOp'.index # dragIndex

\* C8: a completed drag-reorder is a permutation of the left list (same ids with
\* the same multiplicities) and the tabs other than the moved one keep their
\* relative order.
C8_ReorderPermutes ==
    [][ ReorderStep =>
          /\ Len(leftOpenTabs') = Len(leftOpenTabs)
          /\ \A id \in SectionIds \cup {UNDEFINED} :
                 Count(id, leftOpenTabs') = Count(id, leftOpenTabs)
          /\ Others(leftOpenTabs', lastOp'.tabId) = Others(leftOpenTabs, lastOp'.tabId) ]_vars

\* C8 witness: 'experience' dragged from the end of [home, about, experience] and
\* dropped on the first tab.
C8_Witness ==
    /\ lastOp.op = "drop" /\ lastOp.tabId = "experience" /\ lastOp.index = 0
    /\ lastOp.len = 3
    /\ leftOpenTabs = <<"experience", "home", "about">>

\* C9: reorder(sourceIndex, targetIndex) with distinct in-range indices leaves the
\* moved tab at position targetIndex, whether the source was before or after the
\* target; with equal indices the list is unchanged.
C9_MovedLandsOnTarget ==
    [][ (lastOp'.op = "drop" /\ dragIndex # NoIndex) =>
          IF lastOp'.index # dragIndex
          THEN leftOpenTabs'[lastOp'.index + 1] = lastOp'.tabId
          ELSE leftOpenTabs' = leftOpenTabs ]_vars

\* The step ran splitTab(tabId, destination, sourceGroup).
SplitStep == lastOp'.op \in {"splitLeft", "splitRight"}
SplitDest == IF lastOp'.op = "splitLeft" THEN "left" ELSE "right"

\* C10: moveToGroup(tabId, destination, sourceGroup) with destination different
\* from sourceGroup ends with tabId in the destination list, active there, and
\* absent from the source list.
C10_MoveToGroup ==
    [][ (SplitStep /\ SplitDest # lastOp'.group) =>
          /\ IsMember(lastOp'.tabId, NewTabsOf(SplitDest))
          /\ NewActiveOf(SplitDest) = lastOp'.tabId
          /\ ~ IsMember(lastOp'.tabId, NewTabsOf(lastOp'.group)) ]_vars

\* C10 witness: 'about' moved from the left group [home, about] to the right.
C10_Witness ==
    /\ lastOp.op = "splitRight" /\ lastOp.tabId = "about" /\ lastOp.group = "left"
    /\ lastOp.len = 2
    /\ rightOpenTabs = <<"about">>
    /\ rightActiveTabId = "about"
    /\ leftOpenTabs = <<"home">>

\* The step moved the source group's present, active tab to the other group.
MovesActive ==
    /\ SplitStep
    /\ SplitDest # lastOp'.group
    /\ lastOp'.wasActive
    /\ IsMember(lastOp'.tabId, TabsOf(lastOp'.group))

\* The tab the close rule designates after the tab at 1-based position p of prev
\* is removed: its left neighbour, else the tab now at that position, else none.
NeighbourOf(prev, p) ==
    IF p > 1 THEN prev[p - 1]
    ELSE IF Len(prev) > 1 THEN prev[2]
    ELSE NULL

\* C11: when moveToGroup removes the source group's active tab, the source
\* group's new active tab is chosen by the same rule as close: the tab
\* immediately left of the removed position, else the tab now at that position,
\* else none.  (Refuted: splitTab takes the first remaining tab of the list.)
C11_MoveActiveLikeClose ==
    [][ MovesActive =>
          NewActiveOf(lastOp'.group) =
              NeighbourOf(TabsOf(lastOp'.group),
                          PosOf(lastOp'.tabId, TabsOf(lastOp'.group))) ]_vars

\* The split buttons are rendered only under showSplit (App.tsx:265), so the
\* menu never calls splitTab on the only tab of a group: the operation applied
\* directly to the tab at index of a group, whatever the length of its list.
SplitTabCall(index, group, direction) ==
    /\ Idle
    /\ index \in 0..(Len(TabsOf(group)) - 1)
    /\ splitTab(At(TabsOf(group), index), direction, group)
    /\ UNCHANGED <<contextMenu, dragVars>>
    /\ UNCHANGED otherVars
    /\ lastOp' = Op(IF direction = "left" THEN "splitLeft" ELSE "splitRight",
                    At(TabsOf(group), index), group, index)

NextSplit ==
    \/ \E id \in SectionIds : ExplorerClick(id)
    \/ \E i \in 0..(NumSections - 1), g \in Groups : TabClick(i, g)
    \/ \E i \in 0..(NumSections - 1), g \in Groups : TabCloseButton(i, g, TRUE)
    \/ \E i \in 0..(NumSections - 1), g \in Groups, d \in Groups : SplitTabCall(i, g, d)

SpecSplit == Init /\ [][NextSplit]_vars

\* The step moved the only tab of its group to the other group.
MovesOnlyTab ==
    /\ SplitStep
    /\ SplitDest # lastOp'.group
    /\ TabsOf(lastOp'.group) = <<lastOp'.tabId>>

C12_MoveOnlyRightTab ==
    [][ (MovesOnlyTab /\ lastOp'.group = "right") =>
          /\ rightOpenTabs' = <<>>
          /\ rightActiveTabId' = NULL ]_vars

\* C13: closeOthers(tabId) for a tabId that is open in the left group leaves the
\* left list as exactly [tabId] with active = tabId, and the right group
\* unchanged.
C13_CloseOthers ==
    [][ (lastOp'.op = "closeOthers" /\ IsMember(lastOp'.tabId, leftOpenTabs)) =>
          /\ leftOpenTabs' = <<lastOp'.tabId>>
          /\ leftActiveTabId' = lastOp'.tabId
          /\ rightOpenTabs' = rightOpenTabs
          /\ rightActiveTabId' = rightActiveTabId ]_vars

\* C13 witness: Close Others on 'about', the inactive middle tab of three left
\* tabs, while the right group holds a tab.
C13_Witness ==
    /\ lastOp.op = "closeOthers" /\ lastOp.tabId = "about" /\ lastOp.group = "left"
    /\ lastOp.len = 3 /\ ~ lastOp.wasActive
    /\ leftOpenTabs = <<"about">>
    /\ leftActiveTabId = "about"
    /\ Len(rightOpenTabs) > 0

\* C14: closeToRight(tabId) for a tabId at 0-based position p of the left list
\* leaves the left list as its former prefix of length p+1 and makes tabId the
\* left active tab, also when another tab was active, with the right group
\* unchanged.
C14_CloseToRight ==
    [][ (lastOp'.op = "closeToRight" /\ IsMember(lastOp'.tabId, leftOpenTabs)) =>
          /\ leftOpenTabs' = SubSeq(leftOpenTabs, 1, PosOf(lastOp'.tabId, leftOpenTabs))
          /\ leftActiveTabId' = lastOp'.tabId
          /\ rightOpenTabs' = rightOpenTabs
          /\ rightActiveTabId' = rightActiveTabId ]_vars

\* C14 witness: Close to the Right on 'about', the inactive middle tab of three
\* left tabs: the prefix [home, about] is left and 'about' is active.
C14_Witness ==
    /\ lastOp.op = "closeToRight" /\ lastOp.tabId = "about" /\ lastOp.group = "left"
    /\ lastOp.len = 3 /\ ~ lastOp.wasActive
    /\ leftOpenTabs = <<"home", "about">>
    /\ leftActiveTabId = "about"

\* The step ran a mutation that names a tab absent from the list it works on:
\* closeTab on its group, closeOthers and closeToRight on the left group.
AbsentTabRequest ==
    \/ CloseStep /\ ~ IsMember(lastOp'.tabId, TabsOf(lastOp'.group))
    \/ /\ lastOp'.op \in {"closeOthers", "closeToRight"}
       /\ ~ IsMember(lastOp'.tabId, leftOpenTabs)

\* C15: a mutation request naming an absent tab (close of a tab not in the
\* group, closeOthers or closeToRight for an id not in the left list) is a
\* silent no-op that leaves the workspace unchanged.  (Refuted: closeOthers and
\* closeToRight have no presence test before they write.)
C15_AbsentTabNoOp ==
    [][ AbsentTabRequest => tabVars' = tabVars ]_vars

\* The close half of C15, which holds: closeTab returns prev when idx === -1.
C15_CloseAbsentNoOp ==
    [][ (CloseStep /\ ~ IsMember(lastOp'.tabId, TabsOf(lastOp'.group)))
          => tabVars' = tabVars ]_vars

\* clamp(v, lo, hi): v raised to lo, then lowered to hi.
Clamp(v, lo, hi) == MathMin(MathMax(v, lo), hi)

\* ratio is a number of the closed interval [0.2, 0.8].
InRange(ratio) ==
    /\ ratio # NaN
    /\ ~ NumLess(ratio, Num(2, 10))
    /\ ~ NumLess(Num(8, 10), ratio)

ClaimedRatio(pointerX, containerLeft, width, grabOffset) ==
    Clamp(NumDiv(Clamp(NumSub(NumSub(pointerX, containerLeft), grabOffset),
                       NumOf(100), NumSub(width, NumOf(100))),
                 width),
          Num(2, 10), Num(8, 10))

\* C16: splitRatio starts at 0.5 and lies in [0.2, 0.8] in every reachable state;
\* each resize move sets it to
\* clamp(clamp(pointerX - containerLeft - grabOffset, 100, width - 100) / width, 0.2, 0.8)
\* for every container width and pointer position.
C16_SplitRatio ==
    /\ splitRatio = Num(1, 2)
    /\ [][ /\ InRange(splitRatio')
           /\ lastOp'.op = "resizeMove" =>
                  splitRatio' = ClaimedRatio(NumOf(lastOp'.clientX),
                                             NumOf(lastOp'.rect.left),
                                             NumOf(lastOp'.rect.width),
                                             dragOffsetPx) ]_vars

\* C16 witness: the resizer grabbed on its line in a 1000 px container (grab
\* offset 0) and the pointer moved to 50 px: 50 -> 100 px -> 0.1 -> 0.2.
C16_Witness ==
    /\ lastOp.op = "resizeMove"
    /\ lastOp.clientX = 50
    /\ lastOp.rect = [left |-> 0, width |-> 1000]
    /\ dragOffsetPx = NumOf(0)
    /\ isResizing
    /\ splitRatio = Num(1, 5)

\* C17: no tab operation (open, the close variants, closeAll, reorder, split)
\* changes splitRatio, so its value after the right group is emptied and later
\* refilled equals its value before; splitRatio changes only on a pointer move
\* inside an active resize session.
C17_RatioChangesOnlyOnMove ==
    [][ splitRatio' # splitRatio => (lastOp'.op = "resizeMove" /\ isResizing) ]_vars

\* C17 witness: after the divider was dragged to 0.2, Close All emptied the right
\* group and the ratio is still 0.2.
C17_Witness ==
    /\ lastOp.op = "closeAll"
    /\ rightOpenTabs = <<>>
    /\ ~ isResizing
    /\ splitRatio = Num(1, 5)

\* The step fired one of the menu's action buttons.
MenuActionStep ==
    lastOp'.op \in {"menuClose", "closeOthers", "closeToRight", "closeAll",
                    "splitLeft", "splitRight"}

\* What the operation named by the step leaves behind for the tab it was given.
AppliedTo(tabId, group) ==
    /\ lastOp'.op = "menuClose" =>
           \/ ~ IsMember(tabId, NewTabsOf(group))
           \/ group = "left" /\ leftOpenTabs' = <<"home">>
    /\ lastOp'.op = "closeOthers" =>
           /\ leftActiveTabId' = tabId
           /\ \A i \in DOMAIN leftOpenTabs' : leftOpenTabs'[i] = tabId
    /\ lastOp'.op = "closeToRight" =>
           /\ leftActiveTabId' = tabId
           /\ Len(leftOpenTabs') <= Len(leftOpenTabs)
           /\ leftOpenTabs' = SubSeq(leftOpenTabs, 1, Len(leftOpenTabs'))
           /\ (IsMember(tabId, leftOpenTabs)
                 => leftOpenTabs'[Len(leftOpenTabs')] = tabId)
    /\ lastOp'.op = "closeAll" =>
           /\ leftOpenTabs' = <<"home">> /\ leftActiveTabId' = "home"
           /\ rightOpenTabs' = <<>> /\ rightActiveTabId' = NULL
    /\ SplitStep =>
           /\ IsMember(tabId, NewTabsOf(SplitDest))
           /\ NewActiveOf(SplitDest) = tabId

TargetGroupHasTwo ==
    /\ contextMenu # NoMenu
    /\ Len(TabsOf(contextMenu.group)) >= 2

\* C19: the split-left and split-right actions of the context menu are enabled
\* exactly when the menu's target group currently has at least 2 open tabs
\* (on the current lists, also when tabs were opened while the menu was
\* showing), so no split action reachable through the menu is ever applied to
\* the only tab of a group.
C19_SplitOffered ==
    /\ [](Idle => /\ (ENABLED MenuSplitLeft) <=> TargetGroupHasTwo
                  /\ (ENABLED MenuSplitRight) <=> TargetGroupHasTwo)
    /\ [][ SplitStep =>
             /\ Len(TabsOf(lastOp'.group)) >= 2
             /\ TabsOf(lastOp'.group) # <<lastOp'.tabId>> ]_vars

\* C19 witness: the menu was opened on the only left tab, then Enter in the
\* search box opened a second left tab under the open menu, whose split actions
\* are enabled now.
C19_Witness ==
    /\ lastOp.op = "searchEnter" /\ lastOp.len = 1
    /\ Len(leftOpenTabs) = 2
    /\ contextMenu # NoMenu /\ contextMenu.group = "left"
    /\ ENABLED MenuSplitRight

\* The requests of the log, in the order they were issued.
Requests == SelectSeq(loadLog, LAMBDA e : e \in {"GET primary", "GET fallback"})
Logged(e) == \E i \in DOMAIN loadLog : loadLog[i] = e
LoggedBefore(e, f) ==
    \A j \in DOMAIN loadLog : loadLog[j] = f => \E i \in 1..(j - 1) : loadLog[i] = e

\* The content state is 'unavailable': the load has settled without a record.
Unavailable == ~ resumeLoading /\ resume = NULL

\* C20: the content load requests the primary source first; the fallback source
\* is requested only after the primary attempt has failed (network error,
\* non-success response or unparsable body) and at most once; the content
\* state becomes 'unavailable' only after both sources have failed; a
\* successful primary never triggers a fallback request.
C20_LoadOrder ==
    /\ Requests \in {<<>>, <<"GET primary">>, <<"GET primary", "GET fallback">>}
    /\ LoggedBefore("primary failed", "GET fallback")
    /\ Unavailable => (Logged("primary failed") /\ Logged("fallback failed"))
    /\ Logged("primary ok") => ~ Logged("GET fallback")
    /\ resume = "primary" <=> Logged("primary ok")
    /\ resume = "fallback" <=> Logged("fallback ok")

\* C20 witness: the primary attempt failed, the fallback was then requested and
\* its fetch failed too: the load has settled without a record.
C20_Witness ==
    /\ loadLog = <<"GET primary", "primary failed", "GET fallback", "fallback failed">>
    /\ lastOp.op = "fallbackFetch"
    /\ Unavailable

\* C21: the content load is one-shot: provided every issued fetch settles, the
\* loading flag eventually becomes false, on every path (primary success,
\* fallback success, both failed); and once it is false neither the loading
\* flag nor the content record changes again.
C21_LoadOneShot ==
    /\ <>(~ resumeLoading)
    /\ [][~ resumeLoading => (~ resumeLoading' /\ resume' = resume)]_vars

\* C21 witness: the load has settled through the fallback source and the user
\* has gone on working afterwards.
C21_Witness ==
    /\ ~ resumeLoading /\ resume = "fallback" /\ loadPc = "done"
    /\ lastOp.op = "closeTab"

\* The load is in flight until load() has run its finally block.
LoadSettled == loadPc = "done"
OtherSections == {SECTIONS[i] : i \in DOMAIN SECTIONS} \ {"home"}

SameLetter(a, b) ==
    \/ a = b
    \/ \E i \in DOMAIN UpperChars : {a, b} = {UpperChars[i], LowerChars[i]}

\* q occurs in s as a substring, case ignored.
ContainsIgnoringCase(s, q) ==
    \E i \in 0..(Len(s) - Len(q)) : \A j \in 1..Len(q) : SameLetter(s[i + j], q[j])

Matches(id, q) ==
    \/ ContainsIgnoringCase(SectionTitle[id], q)
    \/ ContainsIgnoringCase(SectionFilePath[id], q)

Blank(q) == \A i \in DOMAIN q : q[i] \in WhiteSpace

\* r lists, in the order of SECTIONS and once each, the sections of the set S.
ListsInCatalogOrder(r, S) ==
    /\ {r[i] : i \in DOMAIN r} = S
    /\ \A i, j \in DOMAIN r : i < j => PosOf(r[i], SECTIONS) < PosOf(r[j], SECTIONS)

AllSections == {SECTIONS[i] : i \in DOMAIN SECTIONS}

\* C23: filter(query) returns, in catalog registration order, exactly the
\* sections whose title or display path contains the query as a
\* case-insensitive substring; an empty or whitespace-only query returns all 8
\* sections in catalog order, and a query matching nothing returns the empty
\* sequence.
C23_Filter ==
    /\ Blank(query) => filteredSections(query) = SECTIONS /\ Len(SECTIONS) = 8
    /\ ~ Blank(query) =>
           ListsInCatalogOrder(filteredSections(query),
                               {id \in AllSections : Matches(id, query)})
    /\ (~ Blank(query) /\ \A id \in AllSections : ~ Matches(id, query))
           => filteredSections(query) = <<>>

\* C23 witness: the upper-case extension typed is found in three paths and in no
\* title.
C23_Witness ==
    /\ query = <<".", "T", "S">>
    /\ filteredSections(query) = <<"experience", "skills", "contact">>
    /\ lastOp.op = "searchChange"

\* C24: Enter in the search input with a non-empty filter result opens the first
\* filtered section into the left group, making it the left active tab, and
\* clears the query, leaving the right group unchanged; with an empty filter
\* result it changes neither the workspace nor the query.
C24_CommitFirst ==
    [][lastOp'.op = "searchEnter" =>
          LET result == filteredSections(query)
          IN  IF result # <<>>
              THEN /\ leftOpenTabs' = IF IsMember(result[1], leftOpenTabs)
                                      THEN leftOpenTabs
                                      ELSE Append(leftOpenTabs, result[1])
                   /\ leftActiveTabId' = result[1]
                   /\ query' = <<>>
                   /\ UNCHANGED <<rightOpenTabs, rightActiveTabId>>
              ELSE UNCHANGED <<tabVars, contextMenu, dragVars, paneVars, query>>]_vars

\* C24 witness: with tabs in the right group, Enter on a query that finds
\* 'about' has made it the left active tab and emptied the search box.
C24_Witness ==
    /\ lastOp.op = "searchEnter" /\ lastOp.tabId = "about"
    /\ leftActiveTabId = "about"
    /\ query = <<>>
    /\ rightOpenTabs # <<>>

EscapeStep == lastOp'.op = "searchEscape"

\* C25 as stated: Escape in the search input clears the query without side
\* effect: both groups' tab lists and active tabs, splitRatio, the context-menu
\* state, the drag state and the content state are unchanged.
C25_AsStated ==
    [][EscapeStep =>
          /\ query' = <<>>
          /\ UNCHANGED <<tabVars, paneVars, contextMenu, dragVars, loadVars>>]_vars

\* C25, amended: Escape in the search input clears the query and closes the
\* context menu if one is open; the tab lists and active tabs of both groups,
\* splitRatio, the drag state and the content state are unchanged.
C25_EscapeClearsQuery ==
    [][EscapeStep =>
          /\ query' = <<>>
          /\ contextMenu' = NoMenu
          /\ UNCHANGED <<tabVars, paneVars, dragVars, loadVars>>]_vars

\* C25 witness: Escape was pressed with text in the search box while a context
\* menu was open on a tab, and with tabs in both groups.
C25_Witness ==
    /\ lastOp.op = "searchEscape" /\ lastOp.len > 0 /\ lastOp.tabId # NULL
    /\ query = <<>> /\ contextMenu = NoMenu
    /\ rightOpenTabs # <<>>

\* a stands before b in tabs.
Before(a, b, tabs) == PosOf(a, tabs) < PosOf(b, tabs)
RightIds == {rightOpenTabs[i] : i \in DOMAIN rightOpenTabs}
NewRightIds == {rightOpenTabs'[i] : i \in DOMAIN rightOpenTabs'}

\* C26: the right group is append-only: no operation changes the relative order
\* of two tabs that both remain in the right group's list, and a tab newly
\* added to the right group is placed at the end.
C26_RightAppendOnly ==
    [][/\ \A a, b \in RightIds \cap NewRightIds :
              Before(a, b, rightOpenTabs) <=> Before(a, b, rightOpenTabs')
       /\ \A t \in NewRightIds \ RightIds :
              rightOpenTabs'[Len(rightOpenTabs')] = t]_vars

\* C26 witness: a second tab has been split to the right and stands last.
C26_Witness ==
    /\ lastOp.op = "splitRight"
    /\ Len(rightOpenTabs) = 2
    /\ rightOpenTabs[2] = lastOp.tabId

SessionActive == isResizing

\* C27: a pane-resize session can start only while the right group is
\* non-empty; at most one session is active at a time; the terminating mouse-up
\* always ends it (resizing flag false, grab offset cleared, listeners removed);
\* and pointer moves occurring when no session is active never change
\* splitRatio.
C27_ResizeSession ==
    /\ [](resizeListeners = IF SessionActive THEN 1 ELSE 0)
    /\ [][(~ SessionActive /\ SessionActive')
              => (Len(rightOpenTabs) > 0 /\ lastOp'.op = "resizerMouseDown")]_vars
    /\ [][lastOp'.op = "resizerMouseDown" => ~ SessionActive]_vars
    /\ [][lastOp'.op = "resizeUp"
              => (~ isResizing' /\ dragOffsetPx' = NoOffset /\ resizeListeners' = 0)]_vars
    /\ [][(~ SessionActive /\ lastOp'.op = "pointerMove") => splitRatio' = splitRatio]_vars

\* C27 witness: after a session that moved the divider and was ended by its
\* mouse-up, the pointer has moved over the page.
C27_Witness ==
    /\ lastOp.op = "pointerMove"
    /\ resizeSessions > 0 /\ ~ isResizing
    /\ splitRatio # InitialRatio
    /\ resizeListeners = 0 /\ dragOffsetPx = NoOffset

\* C28: the drag state exists only during an active drag gesture: whenever no
\* drag gesture is in progress (initially, and after every drop or drag-end,
\* including a drop on the source tab itself or a drop with no recorded source)
\* both the source index and the hover index are none.  (Refuted: a drag that
\* did not start on a tab leaves its hover index behind.)
C28_DragStateOnlyInGesture ==
    dragGesture = "none" => (dragIndex = NoIndex /\ dragOverIndex = NoIndex)

\* C28, for the gestures that start on a left tab: holds.
C28_TabDragStateOnlyInGesture ==
    /\ dragGesture = "none" => (dragIndex = NoIndex /\ dragOverIndex = NoIndex)
    /\ dragGesture # "foreign"

\* C29: whenever the context menu is open, its target tab id is present in the
\* tab list of its target group, under every interleaving of the events that
\* can occur while the menu is showing.  (Refuted: the x button of a tab stops
\* the click before the document listener, so the target can be closed under
\* an open menu.)
C29_MenuTargetPresent ==
    contextMenu # NoMenu => IsMember(contextMenu.tabId, TabsOf(contextMenu.group))

\* C30: in every reachable state the right group's activeTabId is none if and
\* only if the right group's tab list is empty, and the right group gains tabs
\* only through a split-right action.
C30_RightActiveIffNonEmpty ==
    /\ [](rightActiveTabId = NULL <=> rightOpenTabs = <<>>)
    /\ [][NewRightIds \ RightIds # {} => lastOp'.op = "splitRight"]_vars

\* C30 witness: the active tab of a right group of two has been split back to
\* the left, and the tab that stayed is the right active tab.
C30_Witness ==
    /\ lastOp.op = "splitLeft" /\ lastOp.group = "right" /\ lastOp.wasActive
    /\ Len(rightOpenTabs) = 1
    /\ rightActiveTabId = rightOpenTabs[1]

====
